---------------------------- MODULE Spec2Model ----------------------------
(***************************************************************************)
(* The scan -> upload -> persist chain of the cattle-scan client.          *)
(*                                                                         *)
(* The repository holds two versions of the Scan page:                     *)
(*   page = 1  src/unnamed/part_003  (earlier: URL check, two inserts,     *)
(*                                    handleReset resets scanMutation only)*)
(*   page = 2  src/unnamed/part_002  (later: one insert, scanId, review)   *)
(* Both are modelled; Init picks the page that is mounted.                 *)
(*                                                                         *)
(* The three steps are TanStack Query v5 mutations (the pages read         *)
(* isPending).  What the pages rely on from that library:                  *)
(*   - observer.mutate(v) builds a new Mutation, detaches the observer     *)
(*     from its previous one and runs mutationFn(v);                       *)
(*   - observer.reset() only detaches the observer: the Mutation keeps     *)
(*     running and its useMutation-level onSuccess/onError still fire;     *)
(*   - the observer's result (status, data) is the state of the Mutation   *)
(*     it is attached to, or idle when attached to none;                   *)
(*   - retry defaults to 0 for mutations.                                  *)
(*                                                                         *)
(* Beside the chain (Spec, LiveSpec, NoResetSpec, TopSpec) the module      *)
(* holds, each as a specification of its own over the same variables: the  *)
(* review and flag updates (ReviewSpec), the geolocation resolver          *)
(* (LocateSpec), the classifier server (ServerSpec), the storage keys of   *)
(* the upload step (KeySpec), the useAuth hook (AuthSpec), the picker's    *)
(* camera (PickerSpec) and the Explore page's image pages (PagerSpec).     *)
(***************************************************************************)
EXTENDS Integers, Sequences, FiniteSets, Bags, TLC

\* ------------------------------------------------------------------ bounds
\* handleScan invocations (chains) in one behaviour
MaxScans == 2

Chains == 1..MaxScans

\* ------------------------------------------------------------ value domains
\* null / undefined of a string-valued slot (file name, error text, user id)
Null == "null"
\* null / undefined of a mapping-valued slot (ScanResult.data, mutation.data)
NullData == [isNull |-> TRUE]
\* a mapping object whose Object.entries are m
Obj(m) == [isNull |-> FALSE, entries |-> m]
\* the empty string as a URL
EmptyUrl == << >>
\* no generated id (ids count from 1), and no row
NoId == 0
NoRow == [none |-> TRUE]

\* files the picker can hand to the page (File.name)
Files == {"a.jpg"}

\* prediction mappings, as Object.entries order: <<breed, score>> pairs
EmptyMap == << >>
MapA == << <<"Gir", 92>>, <<"Sahiwal", 5>> >>
Mappings == {EmptyMap, MapA}

\* the error field of a classifier response: null, or the server's message
ErrorTexts == {Null, "Failed to process image."}

\* a classifier response as the client sees it: res.ok and the JSON body,
\* which holds either a mapping and no error, or no mapping and the error text
Responses ==
  { r \in [ok : BOOLEAN, data : {Obj(m) : m \in Mappings} \cup {NullData},
           error : ErrorTexts] : (r.data = NullData) <=> (r.error # Null) }

Users == {"u1"}
Reasons == {"", "lame"}

\* JavaScript truthiness of the values the pages test with `if (x)` / `!x`:
\* null, undefined and the empty string are falsy; objects (also {}) are truthy.
Truthy(x) == x # Null /\ x # ""
TruthyData(d) == d # NullData
TruthyUrl(u) == u # EmptyUrl
TruthyId(i) == i # NoId

VARIABLES
  page,              \* which Scan page is mounted (1: part_003, 2: part_002)
  user,              \* session?.user ?? null, the same for the whole visit
  file,              \* useState<File | null>
  scanId,            \* useState<string | null>            (page 2)
  inspectionReason,  \* useState("")                        (page 2)
  preview,           \* the picker's preview (image-upload.tsx)
  nChains,           \* chains started so far
  scanCur,           \* the Mutation scanMutation's observer is attached to (0: none)
  uploadCur,         \* same for uploadMutation
  saveCur,           \* same for saveDataMutation
  scanM,             \* per chain: the classify Mutation  [status, variables, data]
  uploadM,           \* per chain: the upload Mutation    [status, variables, data]
  saveM,             \* per chain: the save Mutation      [status, step, req, data]
  cattle_scans,      \* table cattle_scans: sequence of rows, id = position
  predicted_breeds,  \* table predicted_breeds (page 1): set of rows
  issued,            \* history: per chain, network calls issued per step
  got,               \* history: per chain, what the classifier and the storage answered
  toasts,            \* history: bag of the notifications shown, <<chain, step, kind>>
  updateM,           \* the Mutations of reviewMutation and flagMutation, in call order
  ipinfoToken,       \* import.meta.env.VITE_IPINFO_TOKEN
  locate,            \* per call of getBestLocation: where it stands and what it got
  reqs,              \* the server: per POST /scan request, where its handler stands
  now,               \* Date.now() of the browser
  cnb,               \* storage bucket "cnb": the keys that hold an object
  puts,              \* the invocations of uploadMutation's mutationFn, in order
  authLog,           \* supabase.auth: the sessions since useAuth mounted, the last is current
  nDelivered,        \* how many auth-state changes the onAuthStateChange callback got
  getSession,        \* the getSession() call of useAuth: [pc, snapshot]
  session,           \* useAuth: useState(null)
  loading,           \* useAuth: useState(true)
  cameraActive,      \* the picker: useState(false)
  captures,          \* the picker: per capturePhoto call, its fetch(imageSrc)
  images,            \* Explore: the rows of confirmed_cattle_breeds of the selected breed
  pages,             \* Explore: confirmedImagesQuery.data.pages, with what each fetch asked
  fetching           \* Explore: the pageParam being fetched, or Undefined

vars == << page, user, file, scanId, inspectionReason, preview, nChains,
           scanCur, uploadCur, saveCur, scanM, uploadM, saveM,
           cattle_scans, predicted_breeds, issued, got, toasts,
           updateM, ipinfoToken, locate, reqs,
           now, cnb, puts,
           authLog, nDelivered, getSession, session, loading,
           cameraActive, captures, images, pages, fetching >>

\* the storage bucket with the clock the keys are built from
keyVars == << now, cnb, puts >>

\* what is looked at on its own, apart from the chain
\* the useAuth hook with the auth client it listens to
authVars == << authLog, nDelivered, getSession, session, loading >>

\* the picker's camera
pickerVars == << cameraActive, captures >>

\* the confirmed images of the Explore page
pagerVars == << images, pages, fetching >>

extraVars == << keyVars, authVars, pickerVars, pagerVars >>

\* what lives outside the scan chain: the review and flag updates, the
\* geolocation resolver, the classifier server
otherVars == << updateM, ipinfoToken, locate, reqs, extraVars >>

\* everything of the Scan page and of the tables it writes
scanPageVars == << page, user, file, scanId, inspectionReason, preview, nChains,
                   scanCur, uploadCur, saveCur, scanM, uploadM, saveM,
                   cattle_scans, predicted_breeds, issued, got, toasts >>

pageVars == << file, scanId, inspectionReason, preview >>
obsVars == << scanCur, uploadCur, saveCur >>
dbVars == << cattle_scans, predicted_breeds >>
histVars == << issued, got, toasts >>

IdleScan == [status |-> "idle", variables |-> Null, data |-> NullData]
IdleUpload == [status |-> "idle", variables |-> Null, data |-> EmptyUrl]
IdleSave == [status |-> "idle", step |-> 0, req |-> NoRow, data |-> NoId]

\* ---- outside the chain: bounds and idle values
\* calls of reviewMutation.mutate / flagMutation.mutate in one behaviour
MaxUpdates == 2
\* calls of getBestLocation in one behaviour
MaxLocates == 2
Locates == 1..MaxLocates
\* POST /scan requests in one behaviour
MaxRequests == 3
Requests == 1..MaxRequests

\* no Coordinates (yet)
NoCoords == [none |-> TRUE]
\* no answer (yet) of the device or of the IP lookup
NoAnswer == [kind |-> "none"]
\* a call of getBestLocation that has not been made
IdleLocate == [pc |-> "idle", gps |-> NoAnswer, ip |-> NoAnswer, result |-> NoCoords]
\* a request that has not arrived
IdleReq == [pc |-> "idle", upload |-> "none", modelCalls |-> 0, responses |-> << >>]

\* the Scan page before anything happened on it
ChainsIdle ==
  /\ file = Null
  /\ scanId = NoId
  /\ inspectionReason = ""
  /\ preview = Null
  /\ nChains = 0
  /\ scanCur = 0
  /\ uploadCur = 0
  /\ saveCur = 0
  /\ scanM = [c \in Chains |-> IdleScan]
  /\ uploadM = [c \in Chains |-> IdleUpload]
  /\ saveM = [c \in Chains |-> IdleSave]
  /\ issued = [c \in Chains |-> [classify |-> 0, upload |-> 0, insert |-> 0, insert2 |-> 0]]
  /\ got = [c \in Chains |-> [classify |-> "none", data |-> NullData, storage |-> "none"]]
  /\ toasts = EmptyBag

\* no review or flag update was called
UpdatesIdle == updateM = << >>

\* the resolver was not called
LocateIdle ==
  /\ ipinfoToken = Null
  /\ locate = [k \in Locates |-> IdleLocate]

\* the server got no request
ServerIdle == reqs = [r \in Requests |-> IdleReq]

\* the bucket is empty and nothing was uploaded
KeysIdle ==
  /\ now = 0
  /\ cnb = {}
  /\ puts = << >>

\* useAuth as first rendered, signed out, its effect not yet run
AuthIdle ==
  /\ authLog = << Null >>
  /\ nDelivered = 0
  /\ getSession = [pc |-> "idle", snapshot |-> Null]
  /\ session = Null
  /\ loading = TRUE

\* captures of the camera in one behaviour
MaxCaptures == 2
Captures == 1..MaxCaptures
\* a capturePhoto call that has not been made
IdleCapture == [pc |-> "idle", imageSrc |-> Null]

\* the picker as first rendered: camera off, nothing captured
PickerIdle ==
  /\ cameraActive = FALSE
  /\ captures = [k \in Captures |-> IdleCapture]

\* undefined as a page parameter: no page is being fetched, no next page
Undefined == -1

\* the Explore page with no breed selected: the query is disabled
PagerIdle ==
  /\ images = << >>
  /\ pages = << >>
  /\ fetching = Undefined

\* nothing of what is looked at on its own has happened
ExtrasIdle == KeysIdle /\ AuthIdle /\ PickerIdle /\ PagerIdle

Init ==
  /\ page \in {1, 2}
  /\ user \in Users \cup {Null}
  /\ ChainsIdle
  /\ cattle_scans = << >>
  /\ predicted_breeds = {}
  /\ UpdatesIdle
  /\ LocateIdle
  /\ ServerIdle
  /\ ExtrasIdle

\* --------------------------------------------------- observer results
\* What useMutation returns to the render: the attached Mutation's state.
scanMutation == IF scanCur = 0 THEN IdleScan ELSE scanM[scanCur]
uploadMutation == IF uploadCur = 0 THEN IdleUpload ELSE uploadM[uploadCur]
saveDataMutation == IF saveCur = 0 THEN IdleSave ELSE saveM[saveCur]

\* (variant: a failed mutation still counts as pending)
isPendingUntilSuccess(m) == m.status \in {"pending", "error"}

isPending(m) == m.status = "pending"

\* the Scan button: rendered when file is set, disabled while a step is pending
ScanButtonEnabled ==
  /\ Truthy(file)
  /\ ~ (isPending(scanMutation) \/ isPending(uploadMutation) \/ isPending(saveDataMutation))

\* ------------------------------------------------------------ the picker
\* URL.createObjectURL(file): a blob: URL that stands for the file
createObjectURL(f) == "blob:" \o f

\* the launcher panel (Take Photo, Upload Image): {!preview && !cameraActive && ...}
LauncherShown == preview = Null /\ ~ cameraActive

\* handleFileSelect: the file input is rendered in the launcher panel only;
\* onFileSelect(selectedFile), setPreview(URL.createObjectURL(selectedFile))
handleFileSelect(f) ==
  /\ LauncherShown
  /\ file' = f
  /\ preview' = createObjectURL(f)
  /\ UNCHANGED << otherVars, page, user, scanId, inspectionReason, nChains, obsVars,
                  scanM, uploadM, saveM, dbVars, histVars >>

\* ------------------------------------------------------------ step 1
\* scanMutation.mutate(f) for a new chain c: the observer moves to a new
\* Mutation, whose mutationFn shows the toast and issues POST /scan
scanMutate(c, f) ==
  /\ scanCur' = c
  /\ scanM' = [scanM EXCEPT ![c] =
       [status |-> "pending", variables |-> f, data |-> NullData]]
  /\ issued' = [issued EXCEPT ![c].classify = @ + 1]
  /\ toasts' = toasts (+) SetToBag({<<c, "scan", "started">>})

\* the Analyze button
handleScan ==
  /\ ScanButtonEnabled
  /\ nChains < MaxScans
  /\ nChains' = nChains + 1
  /\ IF ~ Truthy(file)
       THEN UNCHANGED << scanCur, scanM, issued, toasts >>
       ELSE scanMutate(nChains + 1, file)
  /\ UNCHANGED << otherVars, page, user, pageVars, uploadCur, saveCur, uploadM, saveM,
                  dbVars, got >>

\* (variant: the body's error field is not looked at)
ClassifyFailsOnStatusOnly(resp) == ~ resp.ok

\* mutationFn of scanMutation: throws on !res.ok and on a truthy data.error
ClassifyFails(resp) == ~ resp.ok \/ Truthy(resp.error)

\* what the classifier answered, as the transport and the body's error field say
Answer(resp) ==
  IF ~ resp.ok THEN "notOk" ELSE IF resp.error # Null THEN "errorField" ELSE "ok"

\* uploadMutation.mutate(f) for chain c: the observer moves to a new Mutation,
\* whose mutationFn shows the toast and issues the storage write
uploadMutate(c, f) ==
  /\ uploadCur' = c
  /\ uploadM' = [uploadM EXCEPT ![c] =
       [status |-> "pending", variables |-> f, data |-> EmptyUrl]]
  /\ issued' = [issued EXCEPT ![c].upload = @ + 1]

\* onSuccess of scanMutation
scanOnSuccess(c) ==
  /\ uploadMutate(c, scanM[c].variables)
  /\ toasts' = toasts (+) SetToBag({<<c, "scan", "finished">>, <<c, "upload", "started">>})

\* (variant: the next step is chained from onError as well)
scanOnErrorChaining(c) ==
  /\ uploadMutate(c, scanM[c].variables)
  /\ toasts' = toasts (+) SetToBag({<<c, "scan", "failed">>, <<c, "upload", "started">>})

\* onError of scanMutation
scanOnError(c) ==
  /\ toasts' = toasts (+) SetToBag({<<c, "scan", "failed">>})
  /\ UNCHANGED << uploadCur, uploadM, issued >>

\* (variant: a failed classify call is issued once more, as with retry: 1)
ClassifyReturnRetrying(c, resp) ==
  /\ scanM[c].status = "pending"
  /\ got' = [got EXCEPT ![c].classify = Answer(resp),
                         ![c].data = IF Answer(resp) = "ok" THEN resp.data ELSE NullData]
  /\ IF ClassifyFails(resp)
       THEN IF issued[c].classify < 2
              THEN /\ issued' = [issued EXCEPT ![c].classify = @ + 1]
                   /\ UNCHANGED << scanM, uploadCur, uploadM, toasts >>
              ELSE /\ scanM' = [scanM EXCEPT ![c].status = "error"]
                   /\ scanOnError(c)
       ELSE /\ scanM' = [scanM EXCEPT ![c].status = "success", ![c].data = resp.data]
            /\ scanOnSuccess(c)
  /\ UNCHANGED << otherVars, page, user, pageVars, nChains, scanCur, saveCur, saveM, dbVars >>

\* The classify call of chain c returns resp.  The callbacks belong to the
\* Mutation, so they run whether or not scanMutation's observer is still
\* attached to it.
ClassifyReturn(c, resp) ==
  /\ scanM[c].status = "pending"
  /\ got' = [got EXCEPT ![c].classify = Answer(resp),
                         ![c].data = IF Answer(resp) = "ok" THEN resp.data ELSE NullData]
  /\ IF ClassifyFails(resp)
       THEN /\ scanM' = [scanM EXCEPT ![c].status = "error"]
            /\ scanOnError(c)
       ELSE /\ scanM' = [scanM EXCEPT ![c].status = "success", ![c].data = resp.data]
            /\ scanOnSuccess(c)
  /\ UNCHANGED << otherVars, page, user, pageVars, nChains, scanCur, saveCur, saveM, dbVars >>

\* ------------------------------------------------------------ step 2
\* supabase.storage.getPublicUrl(fileName).data.publicUrl of the object the
\* upload of chain c stored.  upsert is off, so the bucket refuses a key it
\* already holds: every upload that succeeds has an object, and a URL, of its own.
PublicUrl(c) == <<"public", c, uploadM[c].variables>>

\* mutationFn of uploadMutation after the storage write returned: page 1 also
\* throws when no public URL came back, page 2 returns whatever came back
UploadFails(storageError, publicUrl) ==
  \/ storageError
  \/ page = 1 /\ ~ TruthyUrl(publicUrl)

\* what the storage answered
Stored(storageError, publicUrl) ==
  IF storageError THEN "error" ELSE IF publicUrl = EmptyUrl THEN "noUrl" ELSE "url"

\* mutationFn of saveDataMutation, first statement after the toast
SaveGuardThrows == ~ TruthyData(scanMutation.data)

\* the identifier `location` in saveDataMutation: the module declares no such
\* name (the call of getCurrentLocation is commented out), so it is the
\* browser's global window.location, which serialises as an object of URL parts
WindowLocation == [href |-> "/scan", pathname |-> "/scan"]

\* the row saveDataMutation inserts into cattle_scans, built from the
\* scanMutation and user of the current render
\* (by is history: the chain whose upload made imageUrl and that inserts the row)
ScanRow(c, imageUrl) ==
  IF page = 1
    THEN [image_url |-> imageUrl, raw |-> scanMutation.data, by |-> c]
    ELSE [image_url |-> imageUrl, ai_prediction |-> scanMutation.data,
          location |-> WindowLocation, scanned_by_user_id |-> user, by |-> c]

\* saveDataMutation.mutate(imageUrl), called by chain c: the observer moves to
\* a new Mutation, whose mutationFn shows the toast, throws when the current
\* scanMutation holds no mapping, and otherwise issues the insert
saveMutate(c, imageUrl) ==
  /\ saveCur' = c
  /\ IF SaveGuardThrows
       THEN /\ saveM' = [saveM EXCEPT ![c] =
                 [status |-> "error", step |-> 0, req |-> NoRow, data |-> NoId]]
            /\ toasts' = toasts (+) SetToBag({<<c, "upload", "finished">>,
                                      <<c, "save", "started">>, <<c, "save", "failed">>})
            /\ UNCHANGED issued
       ELSE /\ saveM' = [saveM EXCEPT ![c] =
                 [status |-> "pending", step |-> 1,
                  req |-> ScanRow(c, imageUrl), data |-> NoId]]
            /\ issued' = [issued EXCEPT ![c].insert = @ + 1]
            /\ toasts' = toasts (+) SetToBag({<<c, "upload", "finished">>,
                                      <<c, "save", "started">>})

\* (variant: onSuccess shows its toast and does not start the save)
uploadOnSuccessStopping(c, publicUrl) ==
  /\ toasts' = toasts (+) SetToBag({<<c, "upload", "finished">>})
  /\ UNCHANGED << saveCur, saveM, issued >>

\* onSuccess of uploadMutation
uploadOnSuccess(c, publicUrl) == saveMutate(c, publicUrl)

\* (variant: the next step is chained from onError as well)
uploadOnErrorChaining(c) == saveMutate(c, EmptyUrl)

\* onError of uploadMutation
uploadOnError(c) ==
  /\ toasts' = toasts (+) SetToBag({<<c, "upload", "failed">>})
  /\ UNCHANGED << saveCur, saveM, issued >>

\* The storage write of chain c returns (storageError: it was refused) and
\* getPublicUrl answers (hasUrl: with a URL).
UploadReturn(c, storageError, hasUrl) ==
  LET publicUrl == IF hasUrl THEN PublicUrl(c) ELSE EmptyUrl IN
  /\ uploadM[c].status = "pending"
  /\ storageError => ~ hasUrl
  /\ got' = [got EXCEPT ![c].storage = Stored(storageError, publicUrl)]
  /\ IF UploadFails(storageError, publicUrl)
       THEN /\ uploadM' = [uploadM EXCEPT ![c].status = "error"]
            /\ uploadOnError(c)
       ELSE /\ uploadM' = [uploadM EXCEPT ![c].status = "success", ![c].data = publicUrl]
            /\ uploadOnSuccess(c, publicUrl)
  /\ UNCHANGED << otherVars, page, user, pageVars, nChains, scanCur, uploadCur, scanM, dbVars >>

\* ------------------------------------------------------------ step 3
\* Math.round(Number(percentage)); scores are whole numbers here
Round(x) == x

\* page 1: the rows prepared for predicted_breeds from the mapping
Predictions(id, mapping) ==
  { [scan_id |-> id, breed_id |-> mapping[i][1], percentage |-> Round(mapping[i][2])]
      : i \in 1..Len(mapping) }

\* (variant: onSuccess shows nothing)
saveOnSuccessSilent(c, id) ==
  /\ scanId' = IF page = 1 THEN scanId ELSE id
  /\ UNCHANGED toasts

\* onSuccess of saveDataMutation: page 2 keeps the generated id
saveOnSuccess(c, id) ==
  /\ scanId' = IF page = 1 THEN scanId ELSE id
  /\ toasts' = toasts (+) SetToBag({<<c, "save", "finished">>})

\* onError of saveDataMutation
saveOnError(c) ==
  /\ toasts' = toasts (+) SetToBag({<<c, "save", "failed">>})
  /\ UNCHANGED scanId

\* The insert into cattle_scans of chain c returns.  A refused insert writes
\* nothing.  On page 2 the insert ends the step; on page 1 the mutationFn goes
\* on to insert the prediction rows.
InsertReturn(c, dbError) ==
  /\ saveM[c].status = "pending"
  /\ saveM[c].step = 1
  /\ IF dbError
       THEN /\ saveM' = [saveM EXCEPT ![c].status = "error"]
            /\ saveOnError(c)
            /\ UNCHANGED << cattle_scans, issued >>
       ELSE LET id == Len(cattle_scans) + 1 IN
            /\ cattle_scans' = Append(cattle_scans, saveM[c].req)
            /\ IF page = 1
                 THEN /\ saveM' = [saveM EXCEPT ![c].step = 2, ![c].data = id]
                      /\ issued' = [issued EXCEPT ![c].insert2 = @ + 1]
                      /\ UNCHANGED << scanId, toasts >>
                 ELSE /\ saveM' = [saveM EXCEPT ![c].status = "success", ![c].data = id]
                      /\ saveOnSuccess(c, id)
                      /\ UNCHANGED issued
  /\ UNCHANGED << otherVars, page, user, file, inspectionReason, preview, nChains, obsVars,
                  scanM, uploadM, predicted_breeds, got >>

\* page 1: the insert into predicted_breeds of chain c returns
PredictionsReturn(c, dbError) ==
  /\ saveM[c].status = "pending"
  /\ saveM[c].step = 2
  /\ IF dbError
       THEN /\ saveM' = [saveM EXCEPT ![c].status = "error"]
            /\ saveOnError(c)
            /\ UNCHANGED predicted_breeds
       ELSE /\ saveM' = [saveM EXCEPT ![c].status = "success", ![c].data = NoId]
            /\ predicted_breeds' = predicted_breeds \cup
                 Predictions(saveM[c].data, saveM[c].req.raw.entries)
            /\ saveOnSuccess(c, NoId)
  /\ UNCHANGED << otherVars, page, user, file, inspectionReason, preview, nChains, obsVars,
                  scanM, uploadM, cattle_scans, issued, got >>

\* ------------------------------------------------------------ reset
\* The picker's Reset button (handleRemove), rendered with the preview:
\* setPreview(null), onFileSelect(null), then the page's handleReset, which
\* resets scanMutation and, on page 2 only, the other two mutations, scanId
\* and inspectionReason.  reset() detaches an observer from its Mutation.
handleReset ==
  /\ preview # Null
  /\ preview' = Null
  /\ file' = Null
  /\ scanCur' = 0
  /\ IF page = 1
       THEN UNCHANGED << scanId, inspectionReason, uploadCur, saveCur >>
       ELSE /\ scanId' = NoId
            /\ inspectionReason' = ""
            /\ uploadCur' = 0
            /\ saveCur' = 0
  /\ UNCHANGED << otherVars, page, user, nChains, scanM, uploadM, saveM, dbVars, histVars >>

\* ------------------------------------------------------------ page 2: flag box
\* the results panel, and in it the review and flag boxes
ResultsShown ==
  Truthy(file) /\ scanMutation.status = "success" /\ TruthyData(scanMutation.data)

\* the textarea of the flag box: setInspectionReason(e.target.value)
setInspectionReason(r) ==
  /\ page = 2
  /\ ResultsShown /\ TruthyId(scanId) /\ Truthy(user)
  /\ r # inspectionReason
  /\ inspectionReason' = r
  /\ UNCHANGED << otherVars, page, user, file, scanId, preview, nChains, obsVars, scanM,
                  uploadM, saveM, dbVars, histVars >>

\* ------------------------------------------------------------ top prediction
\* parseFloat of a score.  The scores are JSON numbers: parseFloat reads the
\* number's decimal text back, which gives the number.
parseFloat(x) == x

\* no entry: null (no mapping) or undefined (element 0 of an empty array)
NoEntry == << >>

\* (variant: the comparator sorts ascending)
compareScoresAscending(a, b) == parseFloat(a[2]) - parseFloat(b[2])

\* the comparator handed to sort: (a, b) => parseFloat(b[1]) - parseFloat(a[1])
compareScores(a, b) == parseFloat(b[2]) - parseFloat(a[2])

\* Array.prototype.sort is stable: x goes behind every element the comparator
\* does not put after it
RECURSIVE InsertSorted(_, _)
InsertSorted(sorted, x) ==
  IF sorted = << >> THEN << x >>
  ELSE IF compareScores(Head(sorted), x) <= 0
         THEN << Head(sorted) >> \o InsertSorted(Tail(sorted), x)
         ELSE << x >> \o sorted

RECURSIVE sort(_)
sort(entries) ==
  IF entries = << >> THEN << >>
  ELSE InsertSorted(sort(SubSeq(entries, 1, Len(entries) - 1)), entries[Len(entries)])

\* Object.entries(scanMutation.data.data).sort(...)[0], or null without a mapping
topPrediction ==
  IF ~ TruthyData(scanMutation.data) THEN NoEntry
  ELSE IF scanMutation.data.entries = << >> THEN NoEntry
  ELSE sort(scanMutation.data.entries)[1]

\* topPrediction ? parseFloat(topPrediction[1]) : 0
confidenceScore == IF topPrediction # NoEntry THEN parseFloat(topPrediction[2]) ELSE 0

\* ------------------------------------------------------------ page 2: review and flag
\* reviewMutation and flagMutation update the row of cattle_scans with a given
\* id.  Their mutationFn is modelled for every argument and every identity,
\* not only for the calls the two boxes make.

\* (variant: the row is written as a new row instead of being overwritten)
UpdateAppending(table, id, patch) ==
  IF id \in 1..Len(table)
    THEN Append(table, [f \in DOMAIN table[id] \cup DOMAIN patch |->
                          IF f \in DOMAIN patch THEN patch[f] ELSE table[id][f]])
    ELSE table

\* (variant: the update is not restricted to the row with the id)
UpdateEveryRow(table, id, patch) ==
  [i \in 1..Len(table) |->
     [f \in DOMAIN table[i] \cup DOMAIN patch |->
        IF f \in DOMAIN patch THEN patch[f] ELSE table[i][f]]]

\* .update(patch).eq("id", id): the columns of patch are overwritten in the
\* row whose id is id; no row, no change (and no error)
Update(table, id, patch) ==
  [i \in 1..Len(table) |->
     IF i = id
       THEN [f \in DOMAIN table[i] \cup DOMAIN patch |->
               IF f \in DOMAIN patch THEN patch[f] ELSE table[i][f]]
       ELSE table[i]]

\* (variant: no identity check)
NoLoginRequired == FALSE

\* if (!user) throw new Error("Login required")
LoginRequired == ~ Truthy(user)

\* the object reviewMutation writes; user?.id ?? null
ReviewPatch(isHelpful) ==
  [is_helpful |-> isHelpful, scanned_by_user_id |-> user]

\* (variant: the reason is written whatever the flag)
FlagPatchKeepingReason(flag, reason) ==
  [flagged_for_inspection |-> flag, inspection_reason |-> reason,
   scanned_by_user_id |-> user]

\* the object flagMutation writes
FlagPatch(flag, reason) ==
  [flagged_for_inspection |-> flag,
   inspection_reason |-> IF flag THEN reason ELSE Null,
   scanned_by_user_id |-> user]

\* a Mutation of reviewMutation or flagMutation: a call that threw before its
\* update was issued, or one whose update is in flight
Thrown(op, id, args) ==
  [op |-> op, id |-> id, args |-> args, status |-> "error",
   error |-> "Login required", patch |-> NoRow]
InFlight(op, id, args, patch) ==
  [op |-> op, id |-> id, args |-> args, status |-> "pending",
   error |-> Null, patch |-> patch]

\* reviewMutation.mutate({ id, isHelpful })
reviewMutate(id, isHelpful) ==
  LET n == Len(updateM) + 1
      args == [isHelpful |-> isHelpful] IN
  /\ Len(updateM) < MaxUpdates
  /\ IF LoginRequired
       THEN /\ updateM' = Append(updateM, Thrown("review", id, args))
            /\ toasts' = toasts (+) SetToBag({<<n, "review", "failed">>})
       ELSE /\ updateM' = Append(updateM, InFlight("review", id, args, ReviewPatch(isHelpful)))
            /\ UNCHANGED toasts
  /\ UNCHANGED << page, user, pageVars, nChains, obsVars, scanM, uploadM, saveM,
                  dbVars, issued, got, ipinfoToken, locate, reqs, extraVars >>

\* flagMutation.mutate({ id, flag, reason })
flagMutate(id, flag, reason) ==
  LET n == Len(updateM) + 1
      args == [flag |-> flag, reason |-> reason] IN
  /\ Len(updateM) < MaxUpdates
  /\ IF LoginRequired
       THEN /\ updateM' = Append(updateM, Thrown("flag", id, args))
            /\ toasts' = toasts (+) SetToBag({<<n, "flag", "failed">>})
       ELSE /\ updateM' = Append(updateM, InFlight("flag", id, args, FlagPatch(flag, reason)))
            /\ UNCHANGED toasts
  /\ UNCHANGED << page, user, pageVars, nChains, obsVars, scanM, uploadM, saveM,
                  dbVars, issued, got, ipinfoToken, locate, reqs, extraVars >>

\* the update of the n-th call returns; a refused update writes nothing
UpdateReturned(n, op, dbError) ==
  /\ updateM[n].status = "pending"
  /\ IF dbError
       THEN /\ updateM' = [updateM EXCEPT ![n].status = "error", ![n].error = "db"]
            /\ toasts' = toasts (+) SetToBag({<<n, op, "failed">>})
            /\ UNCHANGED cattle_scans
       ELSE /\ updateM' = [updateM EXCEPT ![n].status = "success"]
            /\ toasts' = toasts (+) SetToBag({<<n, op, "finished">>})
            /\ cattle_scans' = Update(cattle_scans, updateM[n].id, updateM[n].patch)
  /\ UNCHANGED << page, user, pageVars, nChains, obsVars, scanM, uploadM, saveM,
                  predicted_breeds, issued, got, ipinfoToken, locate, reqs, extraVars >>

\* mutationFn of reviewMutation after the update, onSuccess, onError
ReviewReturn(n, dbError) ==
  /\ n \in 1..Len(updateM)
  /\ updateM[n].op = "review"
  /\ UpdateReturned(n, "review", dbError)

\* mutationFn of flagMutation after the update, onSuccess, onError
FlagReturn(n, dbError) ==
  /\ n \in 1..Len(updateM)
  /\ updateM[n].op = "flag"
  /\ UpdateReturned(n, "flag", dbError)

\* ------------------------------------------------------------ geolocation resolver
\* src/utils/location.ts.  Latitudes and longitudes are written as their
\* decimal text, accuracies in metres.

\* what the device can report
Positions ==
  { [latitude |-> "12.97", longitude |-> "77.59", accuracy |-> 10],
    [latitude |-> "28.61", longitude |-> "77.21", accuracy |-> 65] }

\* the answers of navigator.geolocation.getCurrentPosition: the success
\* callback with a position, or the error callback (the timeout option makes
\* the device give up after 10 s)
DeviceAnswers ==
  { [kind |-> "position", coords |-> c] : c \in Positions }
    \cup { [kind |-> "error", message |-> m] : m \in {"denied", "unavailable", "timeout"} }

\* the answers of fetch("https://ipinfo.io/json?token=..."): a rejected
\* fetch, a status that is not OK, or a JSON body; loc is "lat,lng", given
\* here as its parts between the commas, and absent for some addresses
IpAnswers ==
  { [kind |-> "netError"], [kind |-> "notOk"], [kind |-> "noLoc"] }
    \cup { [kind |-> "loc", loc |-> l] : l \in { <<"12.97", "77.59">>, <<"19.07", "72.87">> } }

\* (variant: the catch block gives up)
FallbackRethrowing(k, gps) ==
  locate' = [locate EXCEPT ![k] =
    [pc |-> "thrown", gps |-> gps, ip |-> NoAnswer, result |-> NoCoords]]

\* catch (err) { const ip = await getLocationFromIP(); ... }: the call of
\* getLocationFromIP throws at once without a token, else issues the fetch
Fallback(k, gps) ==
  locate' = [locate EXCEPT ![k] =
    IF ~ Truthy(ipinfoToken)
      THEN [pc |-> "thrown", gps |-> gps, ip |-> [kind |-> "noToken"], result |-> NoCoords]
      ELSE [pc |-> "ip", gps |-> gps, ip |-> [kind |-> "pending"], result |-> NoCoords]]

\* (variant: the IP lookup is made after a device position as well)
GpsResolvedThenIp(k, gps) == Fallback(k, gps)

\* const gps = await getCurrentLocation(); return gps;
GpsResolved(k, gps) ==
  locate' = [locate EXCEPT ![k] =
    [pc |-> "returned", gps |-> gps, ip |-> NoAnswer,
     result |-> [latitude |-> gps.coords.latitude, longitude |-> gps.coords.longitude,
                 accuracy |-> gps.coords.accuracy]]]

\* a call of getBestLocation: getCurrentLocation rejects at once when the
\* browser has no navigator.geolocation, else asks the device
getBestLocation(k, supported) ==
  /\ locate[k].pc = "idle"
  /\ \A j \in 1..(k - 1) : locate[j].pc # "idle"
  /\ IF ~ supported
       THEN Fallback(k, [kind |-> "unsupported"])
       ELSE locate' = [locate EXCEPT ![k].pc = "gps"]
  /\ UNCHANGED << scanPageVars, updateM, ipinfoToken, reqs, extraVars >>

\* the device answers call k
PositionReturn(k, ans) ==
  /\ locate[k].pc = "gps"
  /\ IF ans.kind = "position"
       THEN GpsResolved(k, ans)
       ELSE Fallback(k, ans)
  /\ UNCHANGED << scanPageVars, updateM, ipinfoToken, reqs, extraVars >>

\* the IP lookup of call k answers: getLocationFromIP after the fetch
IpReturn(k, ans) ==
  /\ locate[k].pc = "ip"
  /\ locate' = [locate EXCEPT ![k] =
       IF ans.kind = "loc"
         THEN [@ EXCEPT !.pc = "returned", !.ip = ans,
                        !.result = [latitude |-> parseFloat(ans.loc[1]),
                                    longitude |-> parseFloat(ans.loc[2]),
                                    accuracy |-> 50000]]
         ELSE [@ EXCEPT !.pc = "thrown", !.ip = ans]]
  /\ UNCHANGED << scanPageVars, updateM, ipinfoToken, reqs, extraVars >>

\* ------------------------------------------------------------ the classifier server
\* src/unnamed/part_000: app.post('/scan', upload.single('image'), handler).
\* What the route relies on from multer and express:
\*   - upload.single('image') sets req.file when the multipart body carries
\*     one file in the field 'image', leaves it unset when the body carries no
\*     file, and passes an error to next() when a file comes in another field;
\*   - an error passed to next() with no error middleware installed is
\*     answered by express itself: status 500 and an HTML page.

\* what a POST /scan request carries: a file in the field 'image', no file,
\* or a file in a field of another name
Uploads == {"image", "none", "otherField"}

\* a JSON response, and the response express writes for an unhandled error
Json(status, data, error) ==
  [status |-> status, body |-> [data |-> data, error |-> error]]
ErrorPage == [status |-> 500, body |-> [html |-> "MulterError: Unexpected field"]]

\* processImageWithModel, when it returns
processImageWithModel ==
  [data |-> Obj(<< <<"Gir", 92>>, <<"Sahiwal", 5>>, <<"Red Sindhi", 3>> >>), error |-> Null]

\* if (!req.file) return res.status(400).json(...)
NoFileAnswer(r) ==
  reqs' = [reqs EXCEPT ![r] =
    [pc |-> "done", upload |-> "none", modelCalls |-> 0,
     responses |-> << Json(400, NullData, "No image file provided.") >>]]

\* a request arrives: the multer middleware, then the handler up to the await
post(r, upload) ==
  /\ reqs[r].pc = "idle"
  /\ IF upload = "otherField"
       THEN reqs' = [reqs EXCEPT ![r] =
              [pc |-> "done", upload |-> upload, modelCalls |-> 0,
               responses |-> << ErrorPage >>]]
       ELSE IF upload = "none"
         THEN NoFileAnswer(r)
         ELSE reqs' = [reqs EXCEPT ![r] =
                [pc |-> "processing", upload |-> upload, modelCalls |-> 1,
                 responses |-> << >>]]
  /\ UNCHANGED << scanPageVars, updateM, ipinfoToken, locate, extraVars >>

\* the await of processImageWithModel ends: with the predictions, or by
\* throwing into the catch block
ProcessReturn(r, throws) ==
  /\ reqs[r].pc = "processing"
  /\ reqs' = [reqs EXCEPT ![r].pc = "done",
                           ![r].responses = Append(@,
                              IF throws
                                THEN Json(500, NullData, "Failed to process image.")
                                ELSE Json(200, processImageWithModel.data,
                                          processImageWithModel.error))]
  /\ UNCHANGED << scanPageVars, updateM, ipinfoToken, locate, extraVars >>

\* ------------------------------------------------------------ specification
Next ==
  \/ \E f \in Files : handleFileSelect(f)
  \/ handleScan
  \/ \E c \in Chains, resp \in Responses : ClassifyReturn(c, resp)
  \/ \E c \in Chains, e \in BOOLEAN, u \in BOOLEAN : UploadReturn(c, e, u)
  \/ \E c \in Chains, e \in BOOLEAN : InsertReturn(c, e)
  \/ \E c \in Chains, e \in BOOLEAN : PredictionsReturn(c, e)
  \/ handleReset
  \/ \E r \in Reasons : setInspectionReason(r)

Spec == Init /\ [][Next]_vars

\* ------------------------------------------------------------ specification:
\* the page when every call in flight ends, with an answer or with an error
\* (a fetch, a storage write and an insert each resolve or reject)
CallsReturn ==
  \A c \in Chains :
    /\ WF_vars(\E resp \in Responses : ClassifyReturn(c, resp))
    /\ WF_vars(\E e \in BOOLEAN, u \in BOOLEAN : UploadReturn(c, e, u))
    /\ WF_vars(\E e \in BOOLEAN : InsertReturn(c, e))
    /\ WF_vars(\E e \in BOOLEAN : PredictionsReturn(c, e))

LiveSpec == Init /\ [][Next]_vars /\ CallsReturn

\* ------------------------------------------------------------ specification:
\* review and flag calls against a table that holds rows of earlier visits
MaxRows == 2

\* a row as saveDataMutation of page 2 inserted it in an earlier visit
InsertedRow(k, u) ==
  [image_url |-> <<"public", k, "a.jpg">>, ai_prediction |-> Obj(MapA),
   location |-> WindowLocation, scanned_by_user_id |-> u, by |-> 0]

\* the k-th row: as an anonymous visit inserted it, or flagged since
PersistedRows(k) ==
  { InsertedRow(k, Null) }
    \cup { InsertedRow(k, "u1") @@
             [flagged_for_inspection |-> TRUE, inspection_reason |-> "lame"] }

PersistedTables ==
  { t \in [1..MaxRows -> UNION { PersistedRows(k) : k \in 1..MaxRows }] :
      \A k \in 1..MaxRows : t[k] \in PersistedRows(k) }

\* the ids the calls are made with: the first row's, and one no row has
TargetIds == {1, MaxRows + 1}

InitReview ==
  /\ page = 2
  /\ user \in Users \cup {Null}
  /\ ChainsIdle
  /\ cattle_scans \in PersistedTables
  /\ predicted_breeds = {}
  /\ UpdatesIdle
  /\ LocateIdle
  /\ ServerIdle
  /\ ExtrasIdle

NextReview ==
  \/ \E id \in TargetIds, h \in BOOLEAN : reviewMutate(id, h)
  \/ \E id \in TargetIds, fl \in BOOLEAN, r \in Reasons : flagMutate(id, fl, r)
  \/ \E n \in 1..MaxUpdates, e \in BOOLEAN : ReviewReturn(n, e)
  \/ \E n \in 1..MaxUpdates, e \in BOOLEAN : FlagReturn(n, e)

ReviewSpec == InitReview /\ [][NextReview]_vars

\* ------------------------------------------------------------ specification:
\* calls of getBestLocation, with and without an IPInfo token in the build
InitLocate ==
  /\ page = 2
  /\ user = Null
  /\ ChainsIdle
  /\ cattle_scans = << >>
  /\ predicted_breeds = {}
  /\ UpdatesIdle
  /\ ipinfoToken \in {Null, "token"}
  /\ locate = [k \in Locates |-> IdleLocate]
  /\ ServerIdle
  /\ ExtrasIdle

NextLocate ==
  \/ \E k \in Locates, supported \in BOOLEAN : getBestLocation(k, supported)
  \/ \E k \in Locates, ans \in DeviceAnswers : PositionReturn(k, ans)
  \/ \E k \in Locates, ans \in IpAnswers : IpReturn(k, ans)

LocateSpec == InitLocate /\ [][NextLocate]_vars

\* ------------------------------------------------------------ specification:
\* the server answering POST /scan requests
InitServer ==
  /\ page = 2
  /\ user = Null
  /\ ChainsIdle
  /\ cattle_scans = << >>
  /\ predicted_breeds = {}
  /\ UpdatesIdle
  /\ LocateIdle
  /\ ServerIdle
  /\ ExtrasIdle

NextServer ==
  \/ \E r \in Requests, u \in Uploads : post(r, u)
  \/ \E r \in Requests, t \in BOOLEAN : ProcessReturn(r, t)

ServerSpec == InitServer /\ [][NextServer]_vars

\* ------------------------------------------------------------ specification:
\* the page with the classifier answering any mapping of up to MaxEntries entries
MaxEntries == 3
Breeds == {"Gir", "Sahiwal", "Red Sindhi"}
Scores == {3, 5, 92}

\* mappings as Object.entries lists them: keys are distinct, JSON order is kept
TopMappings ==
  UNION { { m \in [1..n -> Breeds \X Scores] :
              \A i, j \in 1..n : m[i][1] = m[j][1] => i = j } : n \in 0..MaxEntries }

TopResponses ==
  { [ok |-> TRUE, data |-> Obj(m), error |-> Null] : m \in TopMappings }
    \cup { [ok |-> FALSE, data |-> NullData, error |-> "Failed to process image."] }

\* The page after every attempt but the last one failed at the classify step:
\* the file is still selected and the Scan button is enabled again.
InitTop ==
  /\ page \in {1, 2}
  /\ user \in Users \cup {Null}
  /\ file \in Files
  /\ preview = createObjectURL(file)
  /\ scanId = NoId
  /\ inspectionReason = ""
  /\ nChains = MaxScans - 1
  /\ scanCur = MaxScans - 1
  /\ uploadCur = 0
  /\ saveCur = 0
  /\ scanM = [c \in Chains |->
       IF c < MaxScans THEN [status |-> "error", variables |-> file, data |-> NullData]
       ELSE IdleScan]
  /\ uploadM = [c \in Chains |-> IdleUpload]
  /\ saveM = [c \in Chains |-> IdleSave]
  /\ issued = [c \in Chains |->
       [classify |-> IF c < MaxScans THEN 1 ELSE 0, upload |-> 0, insert |-> 0, insert2 |-> 0]]
  /\ got = [c \in Chains |->
       [classify |-> IF c < MaxScans THEN "notOk" ELSE "none", data |-> NullData,
        storage |-> "none"]]
  /\ toasts = SetToBag({ <<c, "scan", k>> : c \in 1..(MaxScans - 1), k \in {"started", "failed"} })
  /\ cattle_scans = << >>
  /\ predicted_breeds = {}
  /\ UpdatesIdle
  /\ LocateIdle
  /\ ServerIdle
  /\ ExtrasIdle

TopNext ==
  \/ \E f \in Files : handleFileSelect(f)
  \/ handleScan
  \/ \E c \in Chains, resp \in TopResponses : ClassifyReturn(c, resp)
  \/ \E c \in Chains, e \in BOOLEAN, u \in BOOLEAN : UploadReturn(c, e, u)
  \/ \E c \in Chains, e \in BOOLEAN : InsertReturn(c, e)
  \/ \E c \in Chains, e \in BOOLEAN : PredictionsReturn(c, e)
  \/ handleReset
  \/ \E r \in Reasons : setInspectionReason(r)

TopSpec == InitTop /\ [][TopNext]_vars

\* ------------------------------------------------------------ helpers of the claims
Rows == { cattle_scans[i] : i \in 1..Len(cattle_scans) }

\* the prediction mapping a row carries
RowPrediction(row) == IF page = 1 THEN row.raw ELSE row.ai_prediction

Failed(c) ==
  scanM[c].status = "error" \/ uploadM[c].status = "error" \/ saveM[c].status = "error"

PendingSteps(c) ==
  { s \in {"scan", "upload", "save"} :
      \/ s = "scan" /\ isPending(scanM[c])
      \/ s = "upload" /\ isPending(uploadM[c])
      \/ s = "save" /\ isPending(saveM[c]) }

\* what the page shows of the orchestrator when nothing has happened yet
OrchestratorInitial ==
  /\ file = Null
  /\ scanId = NoId
  /\ inspectionReason = ""
  /\ scanMutation = IdleScan
  /\ uploadMutation = IdleUpload
  /\ saveDataMutation = IdleSave

\* ------------------------------------------------------------ C1
\* C1: an insert is issued by a chain only after the classify call and then the
\* upload call of that chain returned success; a chain whose classify call or
\* storage write failed issues no insert (and after a failed classify no upload).
C1_InsertOnlyAfterBoth ==
  \A c \in Chains :
    /\ (issued[c].insert > 0 \/ saveM[c].status # "idle") =>
         /\ scanM[c].status = "success" /\ got[c].classify = "ok"
         /\ uploadM[c].status = "success" /\ got[c].storage \in {"url", "noUrl"}
    /\ got[c].classify \in {"notOk", "errorField"} =>
         issued[c].upload = 0 /\ issued[c].insert = 0
    /\ got[c].storage = "error" => issued[c].insert = 0

\* one chain has issued its insert, another had its storage write refused
C1_Witness ==
  \E c, d \in Chains :
    /\ issued[c].insert = 1
    /\ got[d].storage = "error" /\ issued[d].insert = 0

\* ------------------------------------------------------------ C2
\* C2: every row of cattle_scans carries a non-empty image URL and a prediction
\* mapping with at least one entry.
C2_RecordsComplete ==
  \A row \in Rows :
    /\ TruthyUrl(row.image_url)
    /\ TruthyData(RowPrediction(row))
    /\ Len(RowPrediction(row).entries) >= 1

\* ------------------------------------------------------------ C3
\* C3: a chain one of whose steps failed (classify, upload or persist, at
\* whichever write) has left no row in the database.
C3_FailureLeavesNoRecord ==
  \A c \in Chains : Failed(c) => \A row \in Rows : row.by # c

\* ------------------------------------------------------------ C4
\* C4: in a chain the upload exists only once the classify step has succeeded,
\* the save only once the upload has succeeded, and never are two of the three
\* steps of a chain pending together.
C4_StepsSequential ==
  \A c \in Chains :
    /\ uploadM[c].status # "idle" => scanM[c].status = "success"
    /\ saveM[c].status # "idle" => uploadM[c].status = "success"
    /\ Cardinality(PendingSteps(c)) <= 1

\* a chain whose insert is in flight, its first two steps done
C4_Witness ==
  \E c \in Chains : PendingSteps(c) = {"save"} /\ issued[c].upload = 1

\* ------------------------------------------------------------ C5
\* C5: every call of the reset operation leaves the orchestrator as it was
\* initially: no file, no mapping, no upload URL, no record id, empty
\* inspection reason, all three steps idle.
C5_ResetRestoresInitial == [][handleReset => OrchestratorInitial']_vars

\* ------------------------------------------------------------ C6
\* C6: when a call that was in flight at a reset (its Mutation is pending and
\* no longer attached to its observer) completes, nothing of the orchestrator
\* changes, no further call is issued and no row is written.
C6_ResetDiscardsInFlight ==
  [][\A c \in Chains :
       ( \/ isPending(scanM[c]) /\ scanCur # c /\ ~ isPending(scanM[c])'
         \/ isPending(uploadM[c]) /\ uploadCur # c /\ ~ isPending(uploadM[c])'
         \/ isPending(saveM[c]) /\ saveCur # c /\ saveM[c]' # saveM[c] )
       => UNCHANGED << file, scanId, inspectionReason, scanCur, uploadCur, saveCur,
                       issued, cattle_scans, predicted_breeds >>]_vars

\* ------------------------------------------------------------ C7
\* C7: every row pairs the URL of a chain's upload with the mapping the
\* classifier returned in that same chain.
C7_RecordsPairSameAttempt ==
  \A row \in Rows : RowPrediction(row) = got[row.by].data

C9_UploadOutcome ==
  \A c \in Chains :
    /\ got[c].storage \in {"error", "noUrl"} =>
         /\ uploadM[c].status = "error"
         /\ saveM[c].status = "idle" /\ issued[c].insert = 0
         /\ BagIn(<<c, "upload", "failed">>, toasts)
    /\ uploadM[c].status = "success" => TruthyUrl(uploadM[c].data)

\* ------------------------------------------------------------ C10
\* C10: nothing is retried: each started chain issues the classify call once,
\* and the storage write and each insert at most once, and a chain one of
\* whose steps failed has no step pending.
C10_NoRetry ==
  \A c \in Chains :
    /\ issued[c].classify = (IF c <= nChains THEN 1 ELSE 0)
    /\ issued[c].upload <= 1
    /\ issued[c].insert <= 1
    /\ issued[c].insert2 <= 1
    /\ Failed(c) => PendingSteps(c) = {}

\* the first chain failed at classify and the user started a second one
C10_Witness ==
  /\ nChains = 2
  /\ scanM[1].status = "error"
  /\ issued[1] = [classify |-> 1, upload |-> 0, insert |-> 0, insert2 |-> 0]
  /\ issued[2].classify = 1

\* ------------------------------------------------------------ C11
\* C11: for a non-empty mapping, topPrediction is an entry of the mapping whose
\* score is the maximum of all scores, the first such entry in the mapping's
\* entry order, and confidenceScore is that score; {Gir:92, Sahiwal:5,
\* Red Sindhi:3} gives (Gir, 92).
C11_TopIsFirstMaximum ==
  (TruthyData(scanMutation.data) /\ scanMutation.data.entries # << >>) =>
    LET e == scanMutation.data.entries
        t == topPrediction
    IN /\ \E i \in 1..Len(e) :
            /\ e[i] = t
            /\ \A j \in 1..Len(e) : e[j][2] <= t[2]
            /\ \A j \in 1..(i - 1) : e[j][2] < t[2]
       /\ confidenceScore = t[2]
       /\ e = << <<"Gir", 92>>, <<"Sahiwal", 5>>, <<"Red Sindhi", 3>> >> =>
            t = <<"Gir", 92>> /\ confidenceScore = 92

\* a mapping whose maximum is shared by its second and third entries is shown
C11_Witness ==
  /\ TruthyData(scanMutation.data)
  /\ scanMutation.data.entries = << <<"Sahiwal", 5>>, <<"Gir", 92>>, <<"Red Sindhi", 92>> >>
  /\ topPrediction = <<"Gir", 92>>
  /\ confidenceScore = 92

\* ------------------------------------------------------------ C12
\* C12: a flag update written with flag false leaves a null inspection reason
\* in the row, whatever reason was supplied; with flag true it leaves the
\* supplied reason.
C12_UnflagClearsReason ==
  [][\A n \in 1..Len(updateM) :
       (updateM[n].op = "flag" /\ updateM[n].status = "pending"
          /\ updateM'[n].status = "success" /\ updateM[n].id \in 1..Len(cattle_scans))
       => cattle_scans'[updateM[n].id].inspection_reason =
            (IF updateM[n].args.flag THEN updateM[n].args.reason ELSE Null)]_vars

\* row 1 was unflagged by a call that supplied a reason
C12_Witness ==
  \E n \in 1..Len(updateM) :
    /\ updateM[n].op = "flag" /\ updateM[n].status = "success"
    /\ updateM[n].args = [flag |-> FALSE, reason |-> "lame"]
    /\ updateM[n].id = 1
    /\ cattle_scans[1].inspection_reason = Null
    /\ cattle_scans[1].flagged_for_inspection = FALSE

\* ------------------------------------------------------------ C13
\* C13: without a user identity a review or flag call fails with the
\* login-required error, issues no update and leaves the table as it is; every
\* row an update writes carries a non-null acting-user id.
C13_AuthRequired ==
  [][/\ user = Null =>
          /\ UNCHANGED cattle_scans
          /\ \A n \in 1..Len(updateM') :
               /\ updateM'[n].status = "error"
               /\ updateM'[n].error = "Login required"
               /\ updateM'[n].patch = NoRow
     /\ \A i \in 1..Len(cattle_scans) :
          cattle_scans'[i] # cattle_scans[i] => cattle_scans'[i].scanned_by_user_id # Null]_vars

\* without identity, a review call and a flag call have both failed
C13_Witness ==
  /\ user = Null
  /\ Len(updateM) = 2
  /\ updateM[1].op = "review" /\ updateM[1].error = "Login required"
  /\ updateM[2].op = "flag" /\ updateM[2].error = "Login required"

\* ------------------------------------------------------------ C14
\* C14: when a review or flag update has been written, writing the same update
\* once more leaves the table as it is.
C14_Idempotent ==
  [][\A n \in 1..Len(updateM) :
       (updateM[n].status = "pending" /\ updateM'[n].status = "success")
       => Update(cattle_scans', updateM[n].id, updateM[n].patch) = cattle_scans']_vars

\* the same flag call was made twice and both updates were written
C14_Witness ==
  /\ Len(updateM) = 2
  /\ updateM[1] = updateM[2]
  /\ updateM[1].op = "flag" /\ updateM[1].status = "success"
  /\ updateM[1].id = 1
  /\ cattle_scans[1].inspection_reason = "lame"

\* ------------------------------------------------------------ C15
\* C15: a written review update changes, in the row with its id, nothing but
\* is_helpful and the acting-user id; a written flag update nothing but
\* flagged_for_inspection, inspection_reason and the acting-user id; image
\* URL, mapping and location of that row, all other rows and the number of
\* rows stay as they are, and no other step changes the table.
C15_IndependentFieldUpdates ==
  [][/\ Len(cattle_scans') = Len(cattle_scans)
     /\ \A i \in 1..Len(cattle_scans) :
          LET written == { n \in 1..Len(updateM) :
                             /\ updateM[n].status = "pending"
                             /\ updateM'[n].status = "success"
                             /\ updateM[n].id = i }
              columns == UNION { IF updateM[n].op = "review"
                                   THEN {"is_helpful", "scanned_by_user_id"}
                                   ELSE {"flagged_for_inspection", "inspection_reason",
                                         "scanned_by_user_id"} : n \in written }
          IN /\ DOMAIN cattle_scans[i] \subseteq DOMAIN cattle_scans'[i]
             /\ DOMAIN cattle_scans'[i] \subseteq DOMAIN cattle_scans[i] \cup columns
             /\ \A f \in DOMAIN cattle_scans[i] \ columns :
                  cattle_scans'[i][f] = cattle_scans[i][f]]_vars

\* a review of row 1 was written while row 2 carries a flag of an earlier visit
C15_Witness ==
  \E n \in 1..Len(updateM) :
    /\ updateM[n].op = "review" /\ updateM[n].status = "success" /\ updateM[n].id = 1
    /\ cattle_scans[1].is_helpful = TRUE
    /\ cattle_scans[1].image_url = <<"public", 1, "a.jpg">>
    /\ "is_helpful" \notin DOMAIN cattle_scans[2]
    /\ "inspection_reason" \in DOMAIN cattle_scans[2]
    /\ cattle_scans[2].inspection_reason = "lame"

\* ------------------------------------------------------------ C16
\* C16: a call of getBestLocation whose device source or IP lookup succeeded
\* has returned a latitude/longitude/accuracy triple, and a call that failed
\* had both sources fail.
C16_FailsOnlyIfBothFail ==
  \A k \in Locates :
    /\ locate[k].gps.kind = "position" => locate[k].pc = "returned"
    /\ locate[k].ip.kind = "loc" => locate[k].pc = "returned"
    /\ locate[k].pc = "returned" =>
         /\ DOMAIN locate[k].result = {"latitude", "longitude", "accuracy"}
         /\ locate[k].gps.kind = "position" \/ locate[k].ip.kind = "loc"
    /\ locate[k].pc = "thrown" =>
         /\ locate[k].gps.kind \in {"unsupported", "error"}
         /\ locate[k].ip.kind \in {"noToken", "netError", "notOk", "noLoc"}
         /\ locate[k].result = NoCoords

\* one call returned the IP lookup's coordinates, another failed on both sources
C16_Witness ==
  \E j, k \in Locates :
    /\ locate[j].pc = "returned" /\ locate[j].gps.kind = "error"
    /\ locate[j].result = [latitude |-> "19.07", longitude |-> "72.87", accuracy |-> 50000]
    /\ locate[k].pc = "thrown" /\ locate[k].ip.kind = "notOk"

\* ------------------------------------------------------------ C17
\* C17: the IP lookup is attempted only once the device source has failed
\* (unsupported, error or timeout), never after a device position; with a
\* device position the result is exactly the device's coordinates and
\* accuracy; after a device timeout the IP lookup has been attempted.
C17_IpOnlyAfterDeviceFailure ==
  \A k \in Locates :
    /\ locate[k].ip.kind # "none" => locate[k].gps.kind \in {"unsupported", "error"}
    /\ locate[k].gps.kind = "position" =>
         /\ locate[k].ip.kind = "none"
         /\ locate[k].result = locate[k].gps.coords
    /\ (locate[k].gps.kind = "error" /\ locate[k].gps.message = "timeout") =>
         locate[k].ip.kind # "none"

\* one call got a device position, another a device timeout and awaits the lookup
C17_Witness ==
  \E j, k \in Locates :
    /\ locate[j].gps.kind = "position" /\ locate[j].result.accuracy = 65
    /\ locate[k].gps.kind = "error" /\ locate[k].gps.message = "timeout"
    /\ locate[k].pc = "ip"

\* ------------------------------------------------------------ C18
\* C18: every request that was answered got exactly one response: 400 with
\* the no-file error and no call of the model when it carried no image file,
\* 200 with the mapping and a null error when processing succeeded, 500 with
\* the processing error when it threw; and in every response exactly one of
\* data and error is non-null.
C18_ThreeResponseShapes ==
  \A r \in Requests :
    /\ Len(reqs[r].responses) <= 1
    /\ reqs[r].pc = "done" =>
         /\ Len(reqs[r].responses) = 1
         /\ LET res == reqs[r].responses[1] IN
            /\ DOMAIN res.body = {"data", "error"}
            /\ (res.body.data = NullData) # (res.body.error = Null)
            /\ \/ /\ res = Json(400, NullData, "No image file provided.")
                  /\ reqs[r].upload # "image" /\ reqs[r].modelCalls = 0
               \/ /\ res.status = 200 /\ res.body.error = Null
                  /\ res.body.data # NullData
                  /\ reqs[r].upload = "image"
               \/ /\ res = Json(500, NullData, "Failed to process image.")
                  /\ reqs[r].upload = "image"

\* ------------------------------------------------------------ C19
\* C19: a chain one of whose steps failed has no step pending, and after a
\* failure the page always comes to a state where no step it shows is pending:
\* the Scan button is enabled for the selected file, or the picker takes a file.
NoStepShownPending ==
  ~ (isPending(scanMutation) \/ isPending(uploadMutation) \/ isPending(saveDataMutation))

CanStartAttempt ==
  /\ NoStepShownPending
  /\ ScanButtonEnabled \/ (file = Null /\ preview = Null)

C19_NoFatalError ==
  /\ [](\A c \in Chains : Failed(c) => PendingSteps(c) = {})
  /\ \A c \in Chains : Failed(c) ~> CanStartAttempt

\* after the upload of the first attempt failed, the same file was submitted again
C19_Witness ==
  /\ uploadM[1].status = "error"
  /\ nChains = 2
  /\ scanM[2].status = "pending" /\ scanM[2].variables = scanM[1].variables
  /\ preview # Null

\* ------------------------------------------------------------ C20
\* C20: of every step of every chain the page has shown one started
\* notification if the step has begun and none otherwise, one finished
\* notification if it succeeded and none otherwise, one failed notification if
\* it failed and none otherwise.
StepStatus(c, step) ==
  IF step = "scan" THEN scanM[c].status
  ELSE IF step = "upload" THEN uploadM[c].status
  ELSE saveM[c].status

C20_StartedThenOneOutcome ==
  \A c \in Chains, step \in {"scan", "upload", "save"} :
    /\ CopiesIn(<<c, step, "started">>, toasts) =
         (IF StepStatus(c, step) # "idle" THEN 1 ELSE 0)
    /\ CopiesIn(<<c, step, "finished">>, toasts) =
         (IF StepStatus(c, step) = "success" THEN 1 ELSE 0)
    /\ CopiesIn(<<c, step, "failed">>, toasts) =
         (IF StepStatus(c, step) = "error" THEN 1 ELSE 0)

\* one chain went through all three steps, the other failed at its upload
C20_Witness ==
  \E c, d \in Chains :
    /\ saveM[c].status = "success" /\ BagIn(<<c, "save", "finished">>, toasts)
    /\ uploadM[d].status = "error" /\ BagIn(<<d, "upload", "failed">>, toasts)
    /\ BagIn(<<d, "scan", "finished">>, toasts)

\* ------------------------------------------------------------ C21
\* the latitude/longitude pairs the geolocation resolver can hand to a caller
ResolverPairs ==
  { [latitude |-> p.latitude, longitude |-> p.longitude] : p \in Positions }

\* C21: the location of every row of cattle_scans is absent or a
\* latitude/longitude pair of the geolocation resolver, and its
\* scanned_by_user_id is absent (no column, or null) or the signed-in user.
C21_LocationAndUserStored ==
  \A row \in Rows :
    /\ "location" \in DOMAIN row => row.location \in ResolverPairs
    /\ "scanned_by_user_id" \in DOMAIN row => row.scanned_by_user_id \in {Null, user}

\* ------------------------------------------------------------ storage keys
\* uploadMutation's mutationFn against the bucket "cnb", invocation by
\* invocation: which key each one computes and what the storage does with it.
\* The bucket is shared by every browser that runs the page, so the
\* invocations are those of any page instance.

\* the last reading of Date.now() in one behaviour (milliseconds, from 0)
MaxClock == 2
\* invocations of the mutationFn in one behaviour
MaxPuts == 3
\* file.name of the files uploaded
FileNames == {"a.jpg", "b.jpg"}
\* Math.random().toString(36).substring(2): a short string of digits and letters
Randoms == {"k3f", "9xz"}

\* fileName of the mutationFn: the template string, part by part
\* (page 1: images/${Date.now()}-${random}.${file.name},
\*  page 2: images/${Date.now()}-${file.name})
fileName(f, r) ==
  IF page = 1 THEN << "images", now, r, f >> ELSE << "images", now, f >>

\* the names of the objects the bucket holds
StoredNames == { o.name : o \in cnb }

\* a millisecond passes
Tick ==
  /\ now < MaxClock
  /\ now' = now + 1
  /\ UNCHANGED << cnb, puts >>
  /\ UNCHANGED << scanPageVars, updateM, ipinfoToken, locate, reqs, authVars,
                  pickerVars, pagerVars >>

\* one invocation of the mutationFn with file f, Math.random() giving r:
\* storage.from("cnb").upload(fileName, file) with upsert false (written out on
\* page 1, the default on page 2) refuses a name that already holds an object
\* and may fail for other reasons (storageError); else the object is stored
upload(f, r, storageError) ==
  LET n == Len(puts) + 1
      key == fileName(f, r) IN
  /\ n <= MaxPuts
  /\ IF key \in StoredNames
       THEN /\ puts' = Append(puts, [key |-> key, file |-> f, error |-> "exists"])
            /\ UNCHANGED cnb
       ELSE IF storageError
         THEN /\ puts' = Append(puts, [key |-> key, file |-> f, error |-> "storage"])
              /\ UNCHANGED cnb
         ELSE /\ puts' = Append(puts, [key |-> key, file |-> f, error |-> "none"])
              /\ cnb' = cnb \cup { [name |-> key, object |-> f, by |-> n] }
  /\ UNCHANGED now
  /\ UNCHANGED << scanPageVars, updateM, ipinfoToken, locate, reqs, authVars,
                  pickerVars, pagerVars >>

InitKeys ==
  /\ page \in {1, 2}
  /\ user = Null
  /\ ChainsIdle
  /\ cattle_scans = << >>
  /\ predicted_breeds = {}
  /\ UpdatesIdle
  /\ LocateIdle
  /\ ServerIdle
  /\ KeysIdle
  /\ AuthIdle
  /\ PickerIdle
  /\ PagerIdle

NextKeys ==
  \/ Tick
  \/ \E f \in FileNames, r \in Randoms, e \in BOOLEAN : upload(f, r, e)

KeySpec == InitKeys /\ [][NextKeys]_vars

\* ------------------------------------------------------------ C22
\* C22: any two invocations of the upload step compute distinct storage keys.
C22_KeysUnique ==
  \A i, j \in 1..Len(puts) : i # j => puts[i].key # puts[j].key

\* an object once stored is never replaced: the bucket only grows
NoOverwrite == [][cnb \subseteq cnb']_vars

\* ------------------------------------------------------------ specification:
\* a visit in which the Reset button is never pressed and every call in
\* flight ends
NextNoReset ==
  \/ \E f \in Files : handleFileSelect(f)
  \/ handleScan
  \/ \E c \in Chains, resp \in Responses : ClassifyReturn(c, resp)
  \/ \E c \in Chains, e \in BOOLEAN, u \in BOOLEAN : UploadReturn(c, e, u)
  \/ \E c \in Chains, e \in BOOLEAN : InsertReturn(c, e)
  \/ \E c \in Chains, e \in BOOLEAN : PredictionsReturn(c, e)
  \/ \E r \in Reasons : setInspectionReason(r)

NoResetSpec == Init /\ [][NextNoReset]_vars /\ CallsReturn

\* ------------------------------------------------------------ C23
\* chain c went through its three steps; page 2 then holds the id of the row
Done(c) ==
  /\ scanM[c].status = "success"
  /\ uploadM[c].status = "success"
  /\ saveM[c].status = "success"
  /\ page = 2 => TruthyId(saveM[c].data)

\* one step of chain c failed and its error toast was shown
FailedWithNotice(c) ==
  \E step \in {"scan", "upload", "save"} :
    /\ StepStatus(c, step) = "error"
    /\ BagIn(<<c, step, "failed">>, toasts)

\* C23: when no reset happens and every call returns, every chain whose
\* classify call was issued comes to an end with no step pending: either all
\* three steps succeeded (and page 2 got the record id), or one step failed
\* and its error notification was shown.
C23_ChainTerminates ==
  \A c \in Chains :
    (scanM[c].status = "pending")
      ~> (PendingSteps(c) = {} /\ (Done(c) \/ FailedWithNotice(c)))

\* the first chain ended with the record id on the page, the second failed
C23_Witness ==
  /\ page = 2
  /\ Done(1) /\ scanId = saveM[1].data /\ PendingSteps(1) = {}
  /\ FailedWithNotice(2) /\ PendingSteps(2) = {}

\* ------------------------------------------------------------ C24
\* the chains with a call in flight
InProgress == { c \in Chains : PendingSteps(c) # {} }

\* a chain that has begun and has not ended has a step pending
NoGapBetweenSteps ==
  \A c \in Chains :
    (scanM[c].status # "idle" /\ ~ Done(c) /\ ~ Failed(c)) => PendingSteps(c) # {}

\* C24: at most one chain is in progress at any time: a chain that has begun
\* and not ended has a step pending, while it has one the Scan button is not
\* enabled, and no second chain has a call in flight; under every sequence of
\* user actions, Reset and a new file selection included.
C24_OneChainInProgress ==
  /\ NoGapBetweenSteps
  /\ InProgress # {} => ~ ScanButtonEnabled
  /\ Cardinality(InProgress) <= 1

\* ------------------------------------------------------------ C25
\* the review and flag boxes: rendered inside the results panel when scanId is set
ReviewOffered == ResultsShown /\ TruthyId(scanId)

\* C25: a scanId that is set is the id of a row of cattle_scans, and whenever
\* the review and flag boxes are offered that row was inserted by the attempt
\* the page displays (the one its scanMutation is attached to).
C25_ScanIdOfDisplayedAttempt ==
  TruthyId(scanId) =>
    /\ scanId \in 1..Len(cattle_scans)
    /\ ReviewOffered => cattle_scans[scanId].by = scanCur

\* the boxes are offered for the row of an attempt that was reset while its
\* insert was in flight
ReviewOfDiscardedAttempt ==
  /\ ReviewOffered
  /\ scanCur = 2 /\ saveCur = 0
  /\ cattle_scans[scanId].by = 1

\* ------------------------------------------------------------ breed lookup
\* the argument of useBreedInfo on page 2:
\* scanMutation.data?.data ? Object.keys(scanMutation.data.data)[0] : null
\* (element 0 of the keys of {} is undefined, which is falsy like null)
breedName ==
  IF ~ TruthyData(scanMutation.data) THEN Null
  ELSE IF scanMutation.data.entries = << >> THEN Null
  ELSE scanMutation.data.entries[1][1]

\* useBreedInfo: the query runs when breedName is truthy, with .eq("name", breedName)
BreedQueryEnabled == Truthy(breedName)

\* ------------------------------------------------------------ C26
\* C26: on page 2, for every non-empty mapping of a successful scan, the name
\* the breeds query is made with is the breed of topPrediction.
C26_LookupIsTopBreed ==
  (page = 2 /\ scanMutation.status = "success" /\ topPrediction # NoEntry) =>
    /\ BreedQueryEnabled
    /\ breedName = topPrediction[1]

\* ------------------------------------------------------------ useAuth
\* The hook's effect calls supabase.auth.getSession() and subscribes with
\* onAuthStateChange.  The auth client reads the current session at some
\* moment of the call and resolves the promise later; every change of the
\* session (sign in, sign out, refresh, also from another tab) is handed to
\* the subscriber, in order, some time after it happened.

\* changes of the session after the hook mounted, in one behaviour
MaxAuthChanges == 2
Sessions == {"s1", "s2"}

\* the session the auth client holds now
CurrentSession == authLog[Len(authLog)]

\* sign in, sign out or token refresh: the client holds another session
AuthChange(s) ==
  /\ Len(authLog) <= MaxAuthChanges
  /\ s # CurrentSession
  /\ authLog' = Append(authLog, s)
  /\ UNCHANGED << nDelivered, getSession, session, loading >>
  /\ UNCHANGED << scanPageVars, updateM, ipinfoToken, locate, reqs, keyVars,
                  pickerVars, pagerVars >>

\* getSession() reads the session inside the client
GetSessionRead ==
  /\ getSession.pc = "called"
  /\ getSession' = [pc |-> "read", snapshot |-> CurrentSession]
  /\ UNCHANGED << authLog, nDelivered, session, loading >>
  /\ UNCHANGED << scanPageVars, updateM, ipinfoToken, locate, reqs, keyVars,
                  pickerVars, pagerVars >>

\* .then(({ data: { session } }) => { setSession(session); setLoading(false) })
GetSessionThen ==
  /\ getSession.pc = "read"
  /\ session' = getSession.snapshot
  /\ loading' = FALSE
  /\ getSession' = [getSession EXCEPT !.pc = "done"]
  /\ UNCHANGED << authLog, nDelivered >>
  /\ UNCHANGED << scanPageVars, updateM, ipinfoToken, locate, reqs, keyVars,
                  pickerVars, pagerVars >>

\* the onAuthStateChange callback with the next change: setSession(session)
AuthStateChanged ==
  /\ nDelivered < Len(authLog) - 1
  /\ nDelivered' = nDelivered + 1
  /\ session' = authLog[nDelivered + 2]
  /\ UNCHANGED << authLog, getSession, loading >>
  /\ UNCHANGED << scanPageVars, updateM, ipinfoToken, locate, reqs, keyVars,
                  pickerVars, pagerVars >>

\* the hook after its effect ran: getSession() is called, the subscription made
InitAuth ==
  /\ page = 2
  /\ user = Null
  /\ ChainsIdle
  /\ cattle_scans = << >>
  /\ predicted_breeds = {}
  /\ UpdatesIdle
  /\ LocateIdle
  /\ ServerIdle
  /\ KeysIdle
  /\ authLog \in { << s >> : s \in Sessions \cup {Null} }
  /\ nDelivered = 0
  /\ getSession = [pc |-> "called", snapshot |-> Null]
  /\ session = Null
  /\ loading = TRUE
  /\ PickerIdle
  /\ PagerIdle

NextAuth ==
  \/ \E s \in Sessions \cup {Null} : AuthChange(s)
  \/ GetSessionRead
  \/ GetSessionThen
  \/ AuthStateChanged

AuthSpec == InitAuth /\ [][NextAuth]_vars

\* ------------------------------------------------------------ C27
\* the getSession result and every change have reached the hook
AllDelivered == getSession.pc = "done" /\ nDelivered = Len(authLog) - 1

\* C27: loading is true exactly until the getSession result is handled, and
\* once that result and every auth-state change have been delivered, in
\* whatever order, the hook's session is the client's current session.
C27_SessionIsLatest ==
  /\ loading = (getSession.pc # "done")
  /\ AllDelivered => session = CurrentSession

\* the loading half of C27 on its own
LoadingUntilGetSession == loading = (getSession.pc # "done")

\* ------------------------------------------------------------ the picker's camera
\* components/image-upload.tsx with the camera: Take Photo opens the webcam
\* panel; the capture button takes a screenshot (a data URL) and fetches it
\* to get a blob, which takes time; when the fetch resolves the photo goes to
\* the parent and into the preview.  (Switching between front and back camera
\* changes none of this; the webcam's onUserMediaError handler does what
\* stopCamera does.)

\* the pictures webcamRef.current.getScreenshot() can give
Screenshots == {"shotA", "shotB"}

\* getScreenshot(): the picture as a base64 data URL
DataUrl(img) == "data:image/jpeg;base64," \o img

\* fetch(imageSrc).then(res => res.blob()): the picture the data URL encodes;
\* new File([blob], ...) wraps it
Blob(url) == CHOOSE img \in Screenshots : DataUrl(img) = url

\* the picture <img src={preview}> displays
Displayed(url) ==
  CHOOSE img \in Files \cup Screenshots : url \in {createObjectURL(img), DataUrl(img)}

\* what the picker's actions leave alone besides file and preview
besidePicker == << page, user, scanId, inspectionReason, nChains, obsVars,
                   scanM, uploadM, saveM, dbVars, histVars,
                   updateM, ipinfoToken, locate, reqs, keyVars, authVars, pagerVars >>

\* Take Photo, a button of the launcher panel
startCamera ==
  /\ LauncherShown
  /\ cameraActive' = TRUE
  /\ UNCHANGED << file, preview, captures, besidePicker >>

\* the capture button of the webcam panel, the webcam showing img: the fetch
\* of the screenshot starts (without a screenshot nothing happens)
capturePhoto(img) ==
  /\ cameraActive
  /\ \E k \in Captures :
       /\ captures[k].pc = "idle"
       /\ \A j \in 1..(k - 1) : captures[j].pc # "idle"
       /\ captures' = [captures EXCEPT ![k] = [pc |-> "fetching", imageSrc |-> DataUrl(img)]]
  /\ UNCHANGED << file, preview, cameraActive, besidePicker >>

\* (variant: the resolved capture sets the preview and not the parent's file)
CaptureResolvedPreviewOnly(k) ==
  /\ captures[k].pc = "fetching"
  /\ preview' = captures[k].imageSrc
  /\ cameraActive' = FALSE
  /\ captures' = [captures EXCEPT ![k].pc = "done"]
  /\ UNCHANGED << file, besidePicker >>

\* (variant: the resolved capture leaves the camera on)
CaptureResolvedCameraOn(k) ==
  /\ captures[k].pc = "fetching"
  /\ file' = Blob(captures[k].imageSrc)
  /\ preview' = captures[k].imageSrc
  /\ captures' = [captures EXCEPT ![k].pc = "done"]
  /\ UNCHANGED << cameraActive, besidePicker >>

\* the fetch of capture k resolves: onFileSelect(file), setPreview(imageSrc),
\* setCameraActive(false)
CaptureResolved(k) ==
  /\ captures[k].pc = "fetching"
  /\ file' = Blob(captures[k].imageSrc)
  /\ preview' = captures[k].imageSrc
  /\ cameraActive' = FALSE
  /\ captures' = [captures EXCEPT ![k].pc = "done"]
  /\ UNCHANGED besidePicker

\* the fetch of capture k rejects: the promise chain has no catch
CaptureRejected(k) ==
  /\ captures[k].pc = "fetching"
  /\ captures' = [captures EXCEPT ![k].pc = "done"]
  /\ UNCHANGED << file, preview, cameraActive, besidePicker >>

\* the X button of the webcam panel
stopCamera ==
  /\ cameraActive
  /\ cameraActive' = FALSE
  /\ UNCHANGED << file, preview, captures, besidePicker >>

InitPicker ==
  /\ page \in {1, 2}
  /\ user = Null
  /\ ChainsIdle
  /\ cattle_scans = << >>
  /\ predicted_breeds = {}
  /\ UpdatesIdle
  /\ LocateIdle
  /\ ServerIdle
  /\ KeysIdle
  /\ AuthIdle
  /\ PickerIdle
  /\ PagerIdle

NextPicker ==
  \/ startCamera
  \/ \E img \in Screenshots : capturePhoto(img)
  \/ \E k \in Captures : CaptureResolved(k)
  \/ \E k \in Captures : CaptureRejected(k)
  \/ stopCamera
  \/ \E f \in Files : handleFileSelect(f)
  \/ handleReset

PickerSpec == InitPicker /\ [][NextPicker]_vars

\* ------------------------------------------------------------ C28
\* C28: the picker shows a preview exactly when the parent holds a file, and
\* the picture previewed is that file; after every picker event, however the
\* resolution of a capture falls among stop-camera, further captures and Reset.
C28_PreviewMatchesFile ==
  /\ (preview = Null) <=> (file = Null)
  /\ preview # Null => Displayed(preview) = file

\* two captures of different pictures have both resolved, and the one that
\* resolved last is in the preview and with the parent
C28_Witness ==
  /\ captures[1].pc = "done" /\ captures[2].pc = "done"
  /\ captures[1].imageSrc # captures[2].imageSrc
  /\ preview = captures[2].imageSrc
  /\ file = Blob(captures[2].imageSrc)
  /\ ~ cameraActive

\* ------------------------------------------------------------ C29
\* C29: the camera view and the preview are never active together.
C29_CameraOrPreview == ~ (cameraActive /\ preview # Null)

\* one capture has resolved into the preview and switched the camera off
\* while another capture is still being fetched
C29_Witness ==
  /\ \E k \in Captures : captures[k].pc = "done" /\ preview = captures[k].imageSrc
  /\ ~ cameraActive
  /\ \E k \in Captures : captures[k].pc = "fetching"

\* ------------------------------------------------------------ Explore: confirmed images
\* The images of the selected breed are loaded page by page with
\* useInfiniteQuery.  The table does not change while the breed is open, and
\* .order("created_at", { ascending: false }) lists its rows in one fixed order.

\* rows of the selected breed
MaxImages == 37

\* the rows of the breed, newest first, each named by its id (ids grow with
\* created_at)
Table(n) == [i \in 1..n |-> n + 1 - i]

\* .range(from, to): the rows at the offsets from..to (counted from 0, both
\* ends included) of the ordered result, as many as exist
range(rows, from, to) ==
  LET last == IF to + 1 < Len(rows) THEN to + 1 ELSE Len(rows) IN
  IF from + 1 > last THEN << >> ELSE SubSeq(rows, from + 1, last)

RangeFrom(pageParam) == pageParam * 12

\* (variant: the range ends one row later)
RangeToNextMultiple(pageParam) == pageParam * 12 + 12

RangeTo(pageParam) == pageParam * 12 + 11

\* fetchConfirmedImages({ pageParam, breedId }): data || []
fetchConfirmedImages(pageParam) ==
  range(images, RangeFrom(pageParam), RangeTo(pageParam))

\* getNextPageParam: lastPage.length === 12 ? pages.length : undefined
getNextPageParam(lastPage, allPages) ==
  IF Len(lastPage) = 12 THEN Len(allPages) ELSE Undefined

\* confirmedImagesQuery.hasNextPage: the next page parameter is not null or undefined
NextPageParam ==
  IF pages = << >> THEN Undefined
  ELSE getNextPageParam(pages[Len(pages)].rows, pages)

hasNextPage == NextPageParam # Undefined

\* what the Explore page leaves alone
besidePager == << scanPageVars, updateM, ipinfoToken, locate, reqs,
                  keyVars, authVars, pickerVars >>

\* the Load more button, rendered while hasNextPage: fetchNextPage()
fetchNextPage ==
  /\ hasNextPage
  /\ fetching = Undefined
  /\ fetching' = NextPageParam
  /\ UNCHANGED << images, pages, besidePager >>

\* the fetch of a page returns its rows
PageReturn ==
  /\ fetching # Undefined
  /\ pages' = Append(pages,
       [pageParam |-> fetching, from |-> RangeFrom(fetching), to |-> RangeTo(fetching),
        rows |-> fetchConfirmedImages(fetching)])
  /\ fetching' = Undefined
  /\ UNCHANGED << images, besidePager >>

\* the fetch of a page fails (if (error) throw error): no page is added
PageFails ==
  /\ fetching # Undefined
  /\ fetching' = Undefined
  /\ UNCHANGED << images, pages, besidePager >>

\* a breed has just been selected: the query is enabled and fetches its first
\* page, pageParam undefined taking the default 0
InitPager ==
  /\ page = 2
  /\ user = Null
  /\ ChainsIdle
  /\ cattle_scans = << >>
  /\ predicted_breeds = {}
  /\ UpdatesIdle
  /\ LocateIdle
  /\ ServerIdle
  /\ KeysIdle
  /\ AuthIdle
  /\ PickerIdle
  /\ images \in { Table(n) : n \in 0..MaxImages }
  /\ pages = << >>
  /\ fetching = 0

NextPager ==
  \/ fetchNextPage
  \/ PageReturn
  \/ PageFails

PagerSpec == InitPager /\ [][NextPager]_vars

\* ------------------------------------------------------------ C30
\* confirmedImagesQuery.data?.pages.flat()
RECURSIVE Flat(_)
Flat(ps) == IF ps = << >> THEN << >> ELSE ps[1].rows \o Flat(Tail(ps))

\* the offsets among from..to at which the table has a row
OffsetsIn(from, to) == { o \in from..to : o < Len(images) }

\* C30: page p asks for the rows at offsets 12p .. 12p+11 and holds exactly
\* the rows the table has there, in order; a next page is offered exactly
\* when the last loaded page holds 12 rows, and its index is the number of
\* pages loaded; the loaded pages together are the first rows of the table,
\* each once, and all of them once no next page is offered.
C30_Pagination ==
  /\ \A k \in 1..Len(pages) :
       LET pg == pages[k] IN
       /\ pg.pageParam = k - 1
       /\ pg.from = 12 * (k - 1) /\ pg.to = 12 * (k - 1) + 11
       /\ Len(pg.rows) = Cardinality(OffsetsIn(pg.from, pg.to))
       /\ \A i \in 1..Len(pg.rows) : pg.rows[i] = images[pg.from + i]
  /\ pages # << >> =>
       /\ hasNextPage <=> Len(pages[Len(pages)].rows) = 12
       /\ hasNextPage => NextPageParam = Len(pages)
  /\ \A i \in 1..Len(Flat(pages)) : Flat(pages)[i] = images[i]
  /\ (pages # << >> /\ ~ hasNextPage) => Flat(pages) = images

\* 24 rows: two full pages made a third one be offered, which came back empty
C30_Witness ==
  /\ Len(images) = 24
  /\ Len(pages) = 3
  /\ Len(pages[2].rows) = 12
  /\ pages[3].rows = << >>
  /\ ~ hasNextPage
  /\ fetching = Undefined
=============================================================================
